---- MODULE Spec2Model ----
(***************************************************************************)
(* pintui, Go implementation: progress indicators (Spinner, Bar,           *)
(* StageProgress), the message functions, and the formatting module        *)
(* (ParseSize, HumanSize, HumanDuration, TruncatePath).                    *)
(*                                                                         *)
(* Text is modelled as a sequence of characters; each character is a       *)
(* one-element string.  Control characters and escape sequences are named  *)
(* tokens (CR, LF, EL, SGR codes).                                         *)
(*                                                                         *)
(* The spinner animation is the goroutine of github.com/briandowns/spinner *)
(* started by s.Start(): it is modelled by its critical sections (the      *)
(* library draws a frame, and stops, under the spinner's mutex).  Output   *)
(* is assumed to be a terminal, so Start does start the goroutine.         *)
(***************************************************************************)
EXTENDS Integers, Sequences, FiniteSets, TLC

VARIABLES
    noColor,    \* color.NoColor of github.com/fatih/color
    icons,      \* infoIcon, successIcon, warnIcon, errorIcon of messages.go
    out,        \* every write to the terminal, in order, both streams
    spinners,   \* the SpinnerHandles created so far, in creation order
    caller,     \* position of the calling goroutine
    calls,      \* number of operations the caller has started
    frames,     \* number of frames drawn by all ticking goroutines
    bars,       \* the BarHandles created so far, in creation order
    sp,         \* the StageProgress: current, total
    stageCalls, \* number of Next and Skip calls made on sp
    input,      \* the string given to ParseSize, as the pieces it is made of
    result,     \* what ParseSize returned: value and error; NoResult before the call
    bytes,      \* the byte count given to HumanSize
    human,      \* what HumanSize(bytes) returned; <<>> before the call
    again,      \* what HumanSize returned for the value parsed back; <<>> before
    dur,        \* the duration given to HumanDuration
    durText,    \* what HumanDuration(dur) returned; <<>> before the call
    path,       \* the path given to TruncatePath: a sequence of bytes
    maxLen,     \* the limit given to TruncatePath
    truncated,  \* [done, text]: whether TruncatePath returned, and what
    env,        \* the environment variables NO_COLOR, CLICOLOR_FORCE, CLICOLOR
    isTerminal, \* whether the output stream is a terminal
    inited,     \* whether init() has set the colour flag from the environment
    layout      \* the last call of a layout function: [op, n, panicked]

colorVars == <<noColor, icons>>

handleVars == <<colorVars, out, spinners, caller, calls, frames, bars>>

stageVars == <<sp, stageCalls>>

parseVars == <<input, result>>

sizeVars == <<bytes, human, again>>

durVars == <<dur, durText>>

pathVars == <<path, maxLen, truncated>>

formatVars == <<sizeVars, durVars, pathVars>>

envVars == <<env, isTerminal, inited>>

vars == <<handleVars, stageVars, parseVars, formatVars, envVars, layout>>

----------------------------------------------------------------------------
(* Bounds *)

MaxSpinners == 1
MaxBars == 1
MaxCalls == 3
MaxFrames == 2
MaxTotal == 2
MaxLen == 4
MaxUnits == 2
MaxBelow == 2

\* characters in a path given to TruncatePath
MaxPath == 5

\* the largest width given to Divider and level given to Indent
MaxWidth == 2

----------------------------------------------------------------------------
(* Characters and styling *)

CR == "\r"
LF == "\n"
EL == "ESC[K"
SP == " "

\* messages a spinner is created with, updated to, and finished with
InitMsgs == {<<"a">>}

Msgs == {<<"a">>, <<"b">>}

FinalMsgs == {<<"d">>}

\* the finishing calls made on stage spinners
StageFinishOps == {"Success", "Clear"}

\* names of stages
StageNames == {<<"s">>}

\* arguments of NewStageProgress: any int is accepted
StageTotals == -1 .. MaxTotal

\* totals a bar is created with
BarTotals == {2}

\* totals, amounts and values of a bar that is updated
UpdatedBarTotals == {0, 2}

AddAmounts == {-1, 1, 3}

SetValues == {1, 3}

\* fatih/color: a styled string carries its SGR codes unless NoColor is set
\* when it is made
StyledAt(nc, code, s) == IF nc THEN s ELSE <<code>> \o s \o <<"ESC[0m">>

Styled(code, s) == StyledAt(noColor, code, s)

\* the package variables of messages.go, styled when the package is
\* initialised, with color.NoColor as it is then
IconsAt(nc) ==
    [ info    |-> StyledAt(nc, "ESC[34m", <<"info">>),
      success |-> StyledAt(nc, "ESC[32m", <<"check">>),
      warn    |-> StyledAt(nc, "ESC[33m", <<"warn">>),
      error   |-> StyledAt(nc, "ESC[31m", <<"cross">>) ]

GreenString(s) == Styled("ESC[32m", s)

RedString(s) == Styled("ESC[31m", s)

YellowString(s) == Styled("ESC[33m", s)

CyanString(s) == Styled("ESC[36m", s)

\* %d of fmt: the decimal digits of an integer, with a minus sign if negative
Digit(d) == <<"0", "1", "2", "3", "4", "5", "6", "7", "8", "9">>[d + 1]

RECURSIVE ItoaNat(_)
ItoaNat(n) == IF n < 10 THEN <<Digit(n)>> ELSE ItoaNat(n \div 10) \o <<Digit(n % 10)>>

Itoa(n) == IF n < 0 THEN <<"-">> \o ItoaNat(-n) ELSE ItoaNat(n)

\* spinner.CharSets[14]
CharSet14 == <<"f0", "f1", "f2", "f3", "f4", "f5", "f6", "f7", "f8", "f9">>

----------------------------------------------------------------------------
(* Terminal writes.  by is the handle that wrote, kind a tag.               *)

SId(h) == <<"spinner", h>>

BId(h) == <<"bar", h>>

Write(stream, by, kind, text) ==
    [stream |-> stream, by |-> by, kind |-> kind, text |-> text]

Idle == [op |-> "idle", h |-> 0, msg |-> <<>>]

FinishOps == {"Success", "Error", "Warn", "Clear"}

----------------------------------------------------------------------------
(* Spinner *)

\* spinner.New(CharSets[14], 80ms); Prefix, Suffix set; Start()
NewSpinner(prefix, msg) ==
    [ msg      |-> msg,            \* SpinnerHandle.msg
      Prefix   |-> prefix,         \* spinner.Prefix
      Suffix   |-> <<SP>> \o msg,  \* spinner.Suffix
      written  |-> {<<SP>> \o msg},\* values of Suffix an unsynchronised read may see
      active   |-> TRUE,           \* spinner.active, set by Start
      stopChan |-> 0,              \* tokens in the buffered stop channel
      tpc      |-> "select",       \* position of the ticking goroutine
      iter     |-> <<SP>> \o msg,  \* Suffix when the goroutine's current iteration began
      i        |-> 0,              \* index of the next frame
      done     |-> 0 ]             \* finishing calls that have returned

\* func Spinner(msg string) *SpinnerHandle
Spinner(msg) ==
    /\ caller = Idle
    /\ calls < MaxCalls
    /\ Len(spinners) < MaxSpinners
    /\ spinners' = Append(spinners, NewSpinner(<<>>, msg))
    /\ calls' = calls + 1
    /\ UNCHANGED <<colorVars, out, caller, frames, bars, stageVars, parseVars, formatVars, envVars, layout>>

\* the ticking goroutine: select { case <-stopChan: return; default: ... }
TickSelect(h) ==
    /\ spinners[h].tpc = "select"
    /\ IF spinners[h].stopChan > 0
       THEN spinners' = [spinners EXCEPT ![h].stopChan = 0, ![h].tpc = "exited"]
       ELSE spinners' = [spinners EXCEPT ![h].tpc = "draw",
                                         ![h].iter = spinners[h].Suffix]
    /\ UNCHANGED <<colorVars, out, caller, calls, frames, bars, stageVars, parseVars, formatVars, envVars, layout>>

\* the frame the goroutine writes: "\r" Prefix, the coloured glyph, Suffix
FrameText(s, suffix) ==
    <<CR>> \o s.Prefix \o CyanString(<<CharSet14[s.i + 1]>>) \o suffix

\* the ticking goroutine's critical section: under the mutex it returns when
\* the spinner is no longer active, else erases the line and draws a frame.
\* Suffix is written by UpdateMessage without the mutex, so the read may
\* return any value written so far.
TickDraw(h) ==
    /\ spinners[h].tpc = "draw"
    /\ IF ~spinners[h].active
       THEN /\ spinners' = [spinners EXCEPT ![h].tpc = "exited"]
            /\ UNCHANGED <<out, frames>>
       ELSE /\ frames < MaxFrames
            /\ \E suffix \in spinners[h].written :
                 out' = out \o << Write("stdout", SId(h), "erase", <<CR, EL>>),
                                  Write("stdout", SId(h), "frame",
                                        FrameText(spinners[h], suffix)) >>
            /\ frames' = frames + 1
            /\ spinners' = [spinners EXCEPT ![h].tpc = "select",
                                            ![h].i = (@ + 1) % Len(CharSet14)]
    /\ UNCHANGED <<colorVars, caller, calls, bars, stageVars, parseVars, formatVars, envVars, layout>>

\* spinner.Stop(), under the mutex: if active, clear active, erase the line
\* and signal the goroutine
StopWrites(h) ==
    IF spinners[h].active THEN << Write("stdout", SId(h), "erase", <<CR, EL>>) >>
    ELSE <<>>

Stopped(h) ==
    IF spinners[h].active
    THEN [spinners EXCEPT ![h].active = FALSE, ![h].stopChan = 1]
    ELSE spinners

\* a finishing call that forgets s.spinner.Stop()
FinishStop_NoStop(h, op, msg) ==
    /\ caller = Idle
    /\ calls < MaxCalls
    /\ op \in FinishOps
    /\ caller' = [op |-> op, h |-> h, msg |-> IF op = "Clear" THEN <<>> ELSE msg]
    /\ calls' = calls + 1
    /\ UNCHANGED <<colorVars, out, spinners, frames, bars, stageVars, parseVars, formatVars, envVars, layout>>

\* first statement of SpinnerHandle.Success/Error/Warn/Clear: s.spinner.Stop()
FinishStop(h, op, msg) ==
    /\ caller = Idle
    /\ calls < MaxCalls
    /\ op \in FinishOps
    /\ spinners' = Stopped(h)
    /\ out' = out \o StopWrites(h)
    /\ caller' = [op |-> op, h |-> h, msg |-> IF op = "Clear" THEN <<>> ELSE msg]
    /\ calls' = calls + 1
    /\ UNCHANGED <<colorVars, frames, bars, stageVars, parseVars, formatVars, envVars, layout>>

\* the final write with Clear printing a line (Println for Print)
FinalWrite_ClearNewline(op, h, msg) ==
    CASE op = "Success" ->
           Write("stdout", SId(h), "final", <<CR>> \o GreenString(<<"check">>) \o <<SP>> \o msg \o <<LF>>)
      [] op = "Error" ->
           Write("stderr", SId(h), "final", <<CR>> \o RedString(<<"cross">>) \o <<SP>> \o msg \o <<LF>>)
      [] op = "Warn" ->
           Write("stdout", SId(h), "final", <<CR>> \o YellowString(<<"warn">>) \o <<SP>> \o msg \o <<LF>>)
      [] op = "Clear" ->
           Write("stdout", SId(h), "clear", <<CR, EL, LF>>)

\* second statement of SpinnerHandle.Success/Error/Warn/Clear: the final write
FinalWrite(op, h, msg) ==
    CASE op = "Success" ->
           Write("stdout", SId(h), "final", <<CR>> \o GreenString(<<"check">>) \o <<SP>> \o msg \o <<LF>>)
      [] op = "Error" ->
           Write("stderr", SId(h), "final", <<CR>> \o RedString(<<"cross">>) \o <<SP>> \o msg \o <<LF>>)
      [] op = "Warn" ->
           Write("stdout", SId(h), "final", <<CR>> \o YellowString(<<"warn">>) \o <<SP>> \o msg \o <<LF>>)
      [] op = "Clear" ->
           Write("stdout", SId(h), "clear", <<CR, EL>>)

\* a finishing call that is silent on a handle already finished
FinishPrint_Once ==
    /\ caller.op \in FinishOps
    /\ out' = IF spinners[caller.h].done > 0 THEN out
              ELSE Append(out, FinalWrite(caller.op, caller.h, caller.msg))
    /\ spinners' = [spinners EXCEPT ![caller.h].done = @ + 1]
    /\ caller' = Idle
    /\ UNCHANGED <<colorVars, calls, frames, bars, stageVars, parseVars, formatVars, envVars, layout>>

FinishPrint ==
    /\ caller.op \in FinishOps
    /\ out' = Append(out, FinalWrite(caller.op, caller.h, caller.msg))
    /\ spinners' = [spinners EXCEPT ![caller.h].done = @ + 1]
    /\ caller' = Idle
    /\ UNCHANGED <<colorVars, calls, frames, bars, stageVars, parseVars, formatVars, envVars, layout>>

\* func (s *SpinnerHandle) UpdateMessage(msg string)
UpdateMessage(h, msg) ==
    /\ caller = Idle
    /\ calls < MaxCalls
    /\ spinners' = [spinners EXCEPT ![h].msg = msg,
                                    ![h].Suffix = <<SP>> \o msg,
                                    ![h].written = @ \cup {<<SP>> \o msg}]
    /\ calls' = calls + 1
    /\ UNCHANGED <<colorVars, out, caller, frames, bars, stageVars, parseVars, formatVars, envVars, layout>>

----------------------------------------------------------------------------
(* The spinner's mutex.  The ticking goroutine's critical section taken    *)
(* in two steps, s.mu.Lock() and the rest up to s.mu.Unlock(), and         *)
(* UpdateMessage in its two statements.                                    *)

\* the ticking goroutine: s.mu.Lock(); the mutex is free unless the
\* goroutine holds it, Stop() being one step
TickLock(h) ==
    /\ spinners[h].tpc = "draw"
    /\ spinners' = [spinners EXCEPT ![h].tpc = "locked"]
    /\ UNCHANGED <<colorVars, out, caller, calls, frames, bars, stageVars, parseVars, formatVars, envVars, layout>>

\* the ticking goroutine holding the mutex: it returns when the spinner is
\* no longer active, else erases the line, reads Prefix and Suffix, draws
\* the frame; then s.mu.Unlock()
TickUnlock(h) ==
    /\ spinners[h].tpc = "locked"
    /\ IF ~spinners[h].active
       THEN /\ spinners' = [spinners EXCEPT ![h].tpc = "exited"]
            /\ UNCHANGED <<out, frames>>
       ELSE /\ frames < MaxFrames
            /\ \E suffix \in spinners[h].written :
                 out' = out \o << Write("stdout", SId(h), "erase", <<CR, EL>>),
                                  Write("stdout", SId(h), "frame",
                                        FrameText(spinners[h], suffix)) >>
            /\ frames' = frames + 1
            /\ spinners' = [spinners EXCEPT ![h].tpc = "select",
                                            ![h].i = (@ + 1) % Len(CharSet14)]
    /\ UNCHANGED <<colorVars, caller, calls, bars, stageVars, parseVars, formatVars, envVars, layout>>

\* a finishing call's s.spinner.Stop() waits for the mutex
LockedFinishStop(h, op, msg) ==
    /\ spinners[h].tpc # "locked"
    /\ FinishStop(h, op, msg)

\* first statement of UpdateMessage: s.msg = msg.  No mutex is taken.
UpdateMessageBegin(h, msg) ==
    /\ caller = Idle
    /\ calls < MaxCalls
    /\ spinners' = [spinners EXCEPT ![h].msg = msg]
    /\ caller' = [op |-> "UpdateMessage", h |-> h, msg |-> msg]
    /\ calls' = calls + 1
    /\ UNCHANGED <<colorVars, out, frames, bars, stageVars, parseVars, formatVars, envVars, layout>>

\* second statement of UpdateMessage: s.spinner.Suffix = " " + msg
UpdateMessageEnd ==
    /\ caller.op = "UpdateMessage"
    /\ spinners' = [spinners EXCEPT ![caller.h].Suffix = <<SP>> \o caller.msg,
                                    ![caller.h].written = @ \cup {<<SP>> \o caller.msg}]
    /\ caller' = Idle
    /\ UNCHANGED <<colorVars, out, calls, frames, bars, stageVars, parseVars, formatVars, envVars, layout>>

----------------------------------------------------------------------------
(* Bar *)

\* progressbar.NewOptions64(total, ...): nothing is drawn until the first update
NewBar(total, prefix) ==
    [ max         |-> total,    \* config.max
      description |-> prefix,   \* config.description
      currentNum  |-> 0,        \* state.currentNum
      currentBytes |-> 0,       \* state.currentBytes: the sum of all amounts added
      currentPercent |-> 0,     \* state.currentPercent
      finished    |-> FALSE,    \* state.finished
      drawn       |-> <<>>,     \* the percentage last drawn, if any
      updates     |-> 0,        \* Add and Set calls that have returned
      done        |-> 0 ]       \* finishing calls that have returned

\* func Bar(total int64, prefix string) *BarHandle
Bar(total, prefix) ==
    /\ caller = Idle
    /\ calls < MaxCalls
    /\ Len(bars) < MaxBars
    /\ bars' = Append(bars, NewBar(total, prefix))
    /\ calls' = calls + 1
    /\ UNCHANGED <<colorVars, out, spinners, caller, frames, stageVars, parseVars, formatVars, envVars, layout>>

\* what the progress bar draws for a state: the description and the count
BarText(b) ==
    <<CR>> \o b.description \o <<SP>> \o Itoa(b.currentPercent) \o <<"%">>
      \o <<SP, "bar", SP>> \o Itoa(b.currentNum) \o <<"/">> \o Itoa(b.max)

\* the progress bar's render: nothing once finished; else the line is
\* cleared and the bar drawn, and the bar is finished when it reaches max
BarRender(h, b) ==
    IF b.finished THEN <<>>
    ELSE << Write("stdout", BId(h), "barclear", <<CR, "blanks", CR>>),
            Write("stdout", BId(h), "bar", BarText(b)) >>

BarRendered(b) ==
    IF b.finished THEN b
    ELSE [b EXCEPT !.finished = b.currentNum >= b.max, !.drawn = <<b.currentPercent>>]

\* int(float64(currentNum) / float64(max) * 100), for max > 0: the
\* percentage cut towards zero
Percent(b) ==
    LET p == 100 * b.currentNum
    IN  IF p >= 0 THEN p \div b.max ELSE -((-p) \div b.max)

\* progressbar's Add64(num): an error, and nothing drawn, when max is 0;
\* the amount is added while currentNum is below max; an error, and
\* nothing drawn, when currentNum is then above max; else the bar renders
\* (always, with OptionShowCount).  BarHandle drops the error.
Add64(b, num) ==
    IF b.max = 0 THEN [bar |-> b, render |-> FALSE]
    ELSE LET c == [b EXCEPT !.currentNum = IF @ < b.max THEN @ + num ELSE @,
                            !.currentBytes = @ + num]
             d == [c EXCEPT !.currentPercent = Percent(c)]
         IN  [bar |-> d, render |-> d.currentNum <= d.max]

\* func (b *BarHandle) Add(n int), Add64(n int64)
BarAdd(h, n) ==
    /\ caller = Idle
    /\ calls < MaxCalls
    /\ LET r == Add64(bars[h], n)
           b == [r.bar EXCEPT !.updates = @ + 1]
       IN  IF r.render
           THEN /\ out' = out \o BarRender(h, b)
                /\ bars' = [bars EXCEPT ![h] = BarRendered(b)]
           ELSE /\ out' = out
                /\ bars' = [bars EXCEPT ![h] = b]
    /\ calls' = calls + 1
    /\ UNCHANGED <<colorVars, spinners, caller, frames, stageVars, parseVars, formatVars, envVars, layout>>

\* func (b *BarHandle) Set(n int), Set64(n int64): progressbar adds the
\* difference to currentBytes
BarSet(h, n) == BarAdd(h, n - bars[h].currentBytes)

\* first statement of BarHandle.Success/Error: b.bar.Finish() sets the
\* current value to max and renders
BarFinish(h, op, msg) ==
    /\ caller = Idle
    /\ calls < MaxCalls
    /\ op \in {"Success", "Error"}
    /\ LET r == Add64([bars[h] EXCEPT !.currentNum = bars[h].max], 0)
       IN  IF r.render
           THEN /\ out' = out \o BarRender(h, r.bar)
                /\ bars' = [bars EXCEPT ![h] = BarRendered(r.bar)]
           ELSE /\ out' = out
                /\ bars' = [bars EXCEPT ![h] = r.bar]
    /\ caller' = [op |-> "Bar" \o op, h |-> h, msg |-> msg]
    /\ calls' = calls + 1
    /\ UNCHANGED <<colorVars, spinners, frames, stageVars, parseVars, formatVars, envVars, layout>>

\* second statement of BarHandle.Success/Error: the final write
BarFinalWrite(op, h, msg) ==
    IF op = "BarSuccess"
    THEN Write("stdout", BId(h), "final", <<CR>> \o GreenString(<<"check">>) \o <<SP>> \o msg \o <<LF>>)
    ELSE Write("stderr", BId(h), "final", <<CR>> \o RedString(<<"cross">>) \o <<SP>> \o msg \o <<LF>>)

BarFinishPrint ==
    /\ caller.op \in {"BarSuccess", "BarError"}
    /\ out' = Append(out, BarFinalWrite(caller.op, caller.h, caller.msg))
    /\ bars' = [bars EXCEPT ![caller.h].done = @ + 1]
    /\ caller' = Idle
    /\ UNCHANGED <<colorVars, spinners, calls, frames, stageVars, parseVars, formatVars, envVars, layout>>

\* func (b *BarHandle) Clear(): b.bar.Clear() blanks the line
BarClear(h) ==
    /\ caller = Idle
    /\ calls < MaxCalls
    /\ out' = Append(out, Write("stdout", BId(h), "clear", <<CR, "blanks", CR>>))
    /\ bars' = [bars EXCEPT ![h].done = @ + 1]
    /\ calls' = calls + 1
    /\ UNCHANGED <<colorVars, spinners, caller, frames, stageVars, parseVars, formatVars, envVars, layout>>

----------------------------------------------------------------------------
(* StageProgress *)

\* func NewStageProgress(total int) *StageProgress
NewStageProgress(total) == [current |-> 0, total |-> total]

\* fmt.Sprintf("[%d/%d] ", sp.current, sp.total)
StagePrefix(current, total) ==
    <<"[">> \o Itoa(current) \o <<"/">> \o Itoa(total) \o <<"]", SP>>

\* color.New(color.Faint).Sprint
FaintString(s) == Styled("ESC[2m", s)

\* Next with the prefix formatted before the increment
Next_PrefixBeforeIncrement(name) ==
    /\ caller = Idle
    /\ calls < MaxCalls
    /\ sp' = [sp EXCEPT !.current = @ + 1]
    /\ spinners' = Append(spinners, NewSpinner(StagePrefix(sp.current, sp.total), name))
    /\ stageCalls' = stageCalls + 1
    /\ calls' = calls + 1
    /\ UNCHANGED <<colorVars, out, caller, frames, bars, parseVars, formatVars, envVars, layout>>

\* func (sp *StageProgress) Next(name string) *SpinnerHandle
Next(name) ==
    /\ caller = Idle
    /\ calls < MaxCalls
    /\ sp' = [sp EXCEPT !.current = @ + 1]
    /\ spinners' = Append(spinners, NewSpinner(StagePrefix(sp'.current, sp'.total), name))
    /\ stageCalls' = stageCalls + 1
    /\ calls' = calls + 1
    /\ UNCHANGED <<colorVars, out, caller, frames, bars, parseVars, formatVars, envVars, layout>>

\* the line Skip prints
SkipLine(current, total, name) ==
    <<SP, SP>> \o FaintString(<<"circle">>) \o <<SP>> \o <<"[">> \o Itoa(current)
      \o <<"/">> \o Itoa(total) \o <<"]", SP>> \o name
      \o <<SP, "(", "s", "k", "i", "p", "p", "e", "d", ")", LF>>

\* Skip taking the skipped stage out of the total
Skip_LowersTotal(name) ==
    /\ caller = Idle
    /\ calls < MaxCalls
    /\ sp' = [sp EXCEPT !.current = @ + 1, !.total = @ - 1]
    /\ out' = Append(out, Write("stdout", <<"stage", 0>>, "skip",
                                SkipLine(sp'.current, sp'.total, name)))
    /\ stageCalls' = stageCalls + 1
    /\ calls' = calls + 1
    /\ UNCHANGED <<colorVars, spinners, caller, frames, bars, parseVars, formatVars, envVars, layout>>

\* Skip without sp.current++
Skip_NoIncrement(name) ==
    /\ caller = Idle
    /\ calls < MaxCalls
    /\ out' = Append(out, Write("stdout", <<"stage", 0>>, "skip",
                                SkipLine(sp.current, sp.total, name)))
    /\ stageCalls' = stageCalls + 1
    /\ calls' = calls + 1
    /\ UNCHANGED <<colorVars, spinners, caller, frames, bars, sp, parseVars, formatVars, envVars, layout>>

\* func (sp *StageProgress) Skip(name string)
Skip(name) ==
    /\ caller = Idle
    /\ calls < MaxCalls
    /\ sp' = [sp EXCEPT !.current = @ + 1]
    /\ out' = Append(out, Write("stdout", <<"stage", 0>>, "skip",
                                SkipLine(sp'.current, sp'.total, name)))
    /\ stageCalls' = stageCalls + 1
    /\ calls' = calls + 1
    /\ UNCHANGED <<colorVars, spinners, caller, frames, bars, parseVars, formatVars, envVars, layout>>

\* func (sp *StageProgress) Current() int
Current == sp.current

\* func (sp *StageProgress) Total() int
Total == sp.total

\* IsComplete with > for >=
IsComplete_Strict == sp.current > sp.total

\* IsComplete with == for >=
IsComplete_Exact == sp.current = sp.total

\* func (sp *StageProgress) IsComplete() bool
IsComplete == sp.current >= sp.total

----------------------------------------------------------------------------
(* Messages *)

MessageOps == {"Info", "Success", "Warn", "Error", "Dim"}

\* what a message function writes as: the package, and the function as the
\* kind of the write
MId == <<"message", 0>>

\* the line of a message function: the icon, the message and a newline;
\* Dim indents the message and styles it at the call (dimStyle.Sprint)
MessageLine(op, msg) ==
    CASE op = "Info"    -> icons.info \o <<SP>> \o msg \o <<LF>>
      [] op = "Success" -> icons.success \o <<SP>> \o msg \o <<LF>>
      [] op = "Warn"    -> icons.warn \o <<SP>> \o msg \o <<LF>>
      [] op = "Error"   -> icons.error \o <<SP>> \o msg \o <<LF>>
      [] op = "Dim"     -> <<SP, SP>> \o FaintString(msg) \o <<LF>>

\* every message function printing with fmt.Printf
MessageStream_Stdout(op) == "stdout"

\* Error prints with fmt.Fprintf(os.Stderr, ...), the others with fmt.Printf
MessageStream(op) == IF op = "Error" THEN "stderr" ELSE "stdout"

\* func Info(msg string), Success, Warn, Error, Dim
Message(op, msg) ==
    /\ caller = Idle
    /\ calls < MaxCalls
    /\ out' = Append(out, Write(MessageStream(op), MId, op, MessageLine(op, msg)))
    /\ calls' = calls + 1
    /\ UNCHANGED <<colorVars, spinners, caller, frames, bars, stageVars, parseVars, formatVars, envVars, layout>>

\* color.NoColor = b: the program switches styling off or on
SetNoColor(b) ==
    /\ caller = Idle
    /\ calls < MaxCalls
    /\ noColor' = b
    /\ calls' = calls + 1
    /\ UNCHANGED <<icons, out, spinners, caller, frames, bars, stageVars, parseVars, formatVars, envVars, layout>>

----------------------------------------------------------------------------
(* ParseSize *)

\* inputs are made of these pieces: single characters, a unit, and an
\* exponent small enough for the number to round to zero as a float64
Pieces == { <<SP>>, <<"-">>, <<"+">>, <<".">>, <<"0">>, <<"1">>, <<"a">>, <<"k">>,
            <<"B">>, <<"M", "B">>, <<"e", "-", "9", "9", "9">> }

\* 2^53 + 1, the first whole number that is not a float64
Big == <<"9", "0", "0", "7", "1", "9", "9", "2", "5", "4", "7", "4", "0", "9", "9", "3">>

\* pieces of whole numbers with units in either case
IntPieces == { <<SP>>, <<"0">>, <<"1">>, Big, <<"k">>, <<"K">>, <<"b">>, <<"B">>,
               <<"m", "B">>, <<"G", "b">>, <<"t", "b">> }

\* pieces of numbers too large for a uint64 once multiplied, and of the
\* numbers that are not finite
Nines == <<"9", "9", "9", "9", "9", "9", "9", "9">>

RangePieces == { <<SP>>, <<"-">>, <<"1">>, Nines, <<"i", "n", "f">>, <<"n", "a", "n">>,
                 <<"B">>, <<"t", "b">> }

\* the text spelled by a sequence of pieces
RECURSIVE Flatten(_)
Flatten(ps) == IF ps = <<>> THEN <<>> ELSE Head(ps) \o Flatten(Tail(ps))

KB == 1024

\* the units and the number of factors of 1024 in their multipliers
Units == << [suffix |-> <<"T", "B">>, pow |-> 4],
            [suffix |-> <<"G", "B">>, pow |-> 3],
            [suffix |-> <<"M", "B">>, pow |-> 2],
            [suffix |-> <<"K", "B">>, pow |-> 1],
            [suffix |-> <<"B">>,      pow |-> 0] >>

\* strings.ToUpper, on the characters of Pieces, IntPieces and RangePieces
UpperChar(c) ==
    CASE c = "a" -> "A" [] c = "b" -> "B" [] c = "e" -> "E" [] c = "g" -> "G"
      [] c = "k" -> "K" [] c = "m" -> "M" [] c = "t" -> "T" [] c = "i" -> "I"
      [] c = "n" -> "N" [] c = "f" -> "F" [] OTHER -> c

ToUpper(s) == [i \in DOMAIN s |-> UpperChar(s[i])]

IsSpace(c) == c = SP

\* strings.TrimSpace
RECURSIVE TrimLeft(_)
TrimLeft(s) == IF s # <<>> /\ IsSpace(Head(s)) THEN TrimLeft(Tail(s)) ELSE s

RECURSIVE TrimRight(_)
TrimRight(s) ==
    IF s # <<>> /\ IsSpace(s[Len(s)]) THEN TrimRight(SubSeq(s, 1, Len(s) - 1)) ELSE s

TrimSpace(s) == TrimRight(TrimLeft(s))

\* strings.HasSuffix, strings.TrimSuffix
HasSuffix(s, suffix) ==
    /\ Len(s) >= Len(suffix)
    /\ SubSeq(s, Len(s) - Len(suffix) + 1, Len(s)) = suffix

TrimSuffix(s, suffix) ==
    IF HasSuffix(s, suffix) THEN SubSeq(s, 1, Len(s) - Len(suffix)) ELSE s

IsDigit(c) == c \in {"0", "1", "2", "3", "4", "5", "6", "7", "8", "9"}

DigitVal(c) == CHOOSE d \in 0 .. 9 : Digit(d) = c

\* the exponent of strconv.ParseFloat's scan, from position i (after the
\* "E"): an optional sign and at least one digit, up to the end of s.
\* e stops growing at 10000, as in the library.
RECURSIVE ScanExponent(_, _, _, _)
ScanExponent(s, i, sawdigits, e) ==
    IF i > Len(s) THEN [ok |-> sawdigits, e |-> e]
    ELSE IF IsDigit(s[i])
         THEN ScanExponent(s, i + 1, TRUE, IF e < 10000 THEN 10 * e + DigitVal(s[i]) ELSE e)
    ELSE [ok |-> FALSE, e |-> 0]

Exponent(s, i) ==
    IF i <= Len(s) /\ s[i] \in {"+", "-"}
    THEN LET r == ScanExponent(s, i + 1, FALSE, 0)
         IN  [ok |-> r.ok, e |-> IF s[i] = "-" THEN -r.e ELSE r.e]
    ELSE ScanExponent(s, i, FALSE, 0)

\* the scan of strconv.ParseFloat: digits with at most one point and at
\* least one digit, then an optional exponent, and nothing else.  m is the
\* digits read, as a number; the number is m / 10^d.
RECURSIVE ScanMantissa(_, _, _, _, _, _)
ScanMantissa(s, i, sawdot, sawdigits, m, d) ==
    IF i > Len(s) THEN [ok |-> sawdigits, m |-> m, d |-> d]
    ELSE IF IsDigit(s[i])
         THEN ScanMantissa(s, i + 1, sawdot, TRUE, Append(m, DigitVal(s[i])),
                           IF sawdot THEN d + 1 ELSE d)
    ELSE IF s[i] = "." /\ ~sawdot
         THEN ScanMantissa(s, i + 1, TRUE, sawdigits, m, d)
    ELSE IF s[i] = "E" /\ sawdigits
         THEN LET x == Exponent(s, i + 1)
              IN  [ok |-> x.ok, m |-> m, d |-> d - x.e]
    ELSE [ok |-> FALSE, m |-> <<0>>, d |-> 0]

\* Natural numbers too large for a machine word of the model are sequences
\* of decimal digits, most significant first, without leading zeros.
RECURSIVE StripZeros(_)
StripZeros(x) == IF Len(x) > 1 /\ Head(x) = 0 THEN StripZeros(Tail(x)) ELSE x

\* x < y
Less(x, y) ==
    \/ Len(x) < Len(y)
    \/ /\ Len(x) = Len(y)
       /\ \E i \in DOMAIN x : x[i] < y[i] /\ \A j \in 1 .. i - 1 : x[j] = y[j]

IsOdd(x) == x[Len(x)] % 2 = 1

\* x \div 2
Halve(x) ==
    StripZeros(<<>> \o [i \in DOMAIN x |->
                         (x[i] + (IF i > 1 /\ x[i - 1] % 2 = 1 THEN 10 ELSE 0)) \div 2])

\* 2 * x
Double(x) ==
    LET low == [i \in DOMAIN x |->
                  ((2 * x[i]) % 10) + (IF i < Len(x) /\ x[i + 1] >= 5 THEN 1 ELSE 0)]
    IN  (IF x[1] >= 5 THEN <<1>> ELSE <<>>) \o low

\* 2^n * x, by halves of n; the first half is computed before the second
\* is entered, which keeps the evaluation shallow
RECURSIVE DoubleN(_, _)
DoubleN(x, n) ==
    IF n = 0 THEN x
    ELSE IF n = 1 THEN Double(x)
    ELSE LET h == DoubleN(x, n \div 2)
         IN  IF h = <<>> THEN h ELSE DoubleN(h, n - n \div 2)

\* x + y + carry
RECURSIVE AddDigits(_, _, _)
AddDigits(x, y, carry) ==
    IF x = <<>> /\ y = <<>> THEN (IF carry = 0 THEN <<>> ELSE <<carry>>)
    ELSE LET a == IF x = <<>> THEN 0 ELSE x[Len(x)]
             b == IF y = <<>> THEN 0 ELSE y[Len(y)]
             v == a + b + carry
         IN  Append(AddDigits(SubSeq(x, 1, Len(x) - 1), SubSeq(y, 1, Len(y) - 1),
                              v \div 10),
                    v % 10)

Plus(x, y) == AddDigits(x, y, 0)

\* x - 1, for x > 0
RECURSIVE Borrow(_)
Borrow(x) ==
    IF x[Len(x)] > 0 THEN [x EXCEPT ![Len(x)] = @ - 1]
    ELSE Append(Borrow(SubSeq(x, 1, Len(x) - 1)), 9)

Minus1(x) == StripZeros(Borrow(x))

\* 2^53: a float64 holds 53 significant bits
TwoTo53 == DoubleN(<<1>>, 53)

\* 2^64: a uint64 holds the numbers below it
TwoTo64 == DoubleN(<<1>>, 64)

\* one binary place dropped from s.q: rb is the bit dropped last, st tells
\* whether a bit dropped before it was set, sh counts the places dropped
ShiftRight1(s) ==
    [q |-> Halve(s.q), rb |-> IsOdd(s.q), st |-> s.st \/ s.rb, sh |-> s.sh + 1]

\* n places dropped, by halves of n
RECURSIVE ShiftRight(_, _)
ShiftRight(s, n) ==
    IF n = 0 THEN s
    ELSE IF n = 1 THEN ShiftRight1(s)
    ELSE LET h == ShiftRight(s, n \div 2)
         IN  IF h.q = <<>> THEN h ELSE ShiftRight(h, n - n \div 2)

\* x \div 2^n
HalveN(x, n) == ShiftRight([q |-> x, rb |-> FALSE, st |-> FALSE, sh |-> 0], n).q

\* places are dropped until fewer than 2^53 remain
RECURSIVE ShiftTo53(_)
ShiftTo53(s) == IF Less(s.q, TwoTo53) THEN s ELSE ShiftTo53(ShiftRight1(s))

\* a number of binary places that x surely has: 2^BitsBelow(x) <= x, and
\* x < 2^(BitsBelow(x) + 5)
BitsBelow(x) == ((Len(x) - 1) * 3321) \div 1000

\* A float64 is mant * 2^exp with mant < 2^53 (2^53 itself stands for the
\* next power of two).  Round53 rounds q, plus a fraction that is not zero
\* when st is set, to the nearest float64, ties to the even one: the places
\* beyond the 53rd are dropped, most of them at once.
Round53(q, st) ==
    LET n == IF BitsBelow(q) > 53 THEN BitsBelow(q) - 53 ELSE 0
        s == ShiftTo53(ShiftRight([q |-> q, rb |-> FALSE, st |-> st, sh |-> 0], n))
    IN  [mant |-> IF s.rb /\ (s.st \/ IsOdd(s.q)) THEN Plus(s.q, <<1>>) ELSE s.q,
         exp  |-> s.sh]

\* the float64 nearest to m / 10^d, m > 0.  With d > 0, m is first doubled
\* k times so that m * 2^k \div 10^d has more than 53 bits (17 digits are
\* enough); the digits dropped by the division only tell whether the
\* quotient is exact.
DecimalToFloat(m, d) ==
    IF d <= 0 THEN Round53(m \o [i \in 1 .. (-d) |-> 0], FALSE)
    ELSE LET k == IF Len(m) >= d + 17 THEN 0
                  ELSE ((d + 17 - Len(m)) * 3322) \div 1000 + 1
             x == DoubleN(m, k)
             n == Len(x) - d
             r == Round53(SubSeq(x, 1, n), \E i \in n + 1 .. Len(x) : x[i] # 0)
         IN  [mant |-> r.mant, exp |-> r.exp - k]

FloatZero == [mant |-> <<0>>, exp |-> 0]

\* strconv.ParseFloat(numStr, 64) on the numbers the pieces can spell: an
\* optional sign, then the number.  "inf" and "infinity", signed or not,
\* and "nan" without a sign are read in any case (the text is upper case
\* here).  A decimal number (-)m / 10^d lies in [10^(mag-1), 10^mag); it
\* rounds to zero (keeping its sign) when it is below 1e-324, and is a
\* range error from 1e309 on.  (The pieces spell no number within a decade
\* of these two limits or in the subnormal range, and no hexadecimal
\* number.)
ParseFloat(s) ==
    LET signed == s # <<>> /\ s[1] \in {"+", "-"}
        rest == IF signed THEN Tail(s) ELSE s
        special == IF rest \in {<<"I", "N", "F">>, <<"I", "N", "F", "I", "N", "I", "T", "Y">>}
                   THEN "inf"
                   ELSE IF s = <<"N", "A", "N">> THEN "nan" ELSE "none"
        r == ScanMantissa(rest, 1, FALSE, FALSE, <<>>, 0)
        m == StripZeros(r.m)
        mag == Len(m) - r.d
        zero == special = "none" /\ (m = <<0>> \/ mag <= -324)
        ok == special # "none" \/ (r.ok /\ (m = <<0>> \/ mag < 310))
    IN  [ok      |-> ok,
         neg     |-> signed /\ s[1] = "-",
         zero    |-> zero,
         special |-> special,
         val     |-> IF ok /\ ~zero /\ special = "none"
                     THEN DecimalToFloat(m, r.d) ELSE FloatZero]

\* a check that rejects nothing
IsNegative_Never(num) == FALSE

\* num < 0: a zero, minus zero included, is not below zero
IsNegative(num) == num.neg /\ ~num.zero

\* decimal digits of a natural number
RECURSIVE NatDigits(_)
NatDigits(n) == IF n < 10 THEN <<n>> ELSE Append(NatDigits(n \div 10), n % 10)

\* digits x times k, for a small k
RECURSIVE MulDigits(_, _, _)
MulDigits(x, k, carry) ==
    IF x = <<>> THEN (IF carry = 0 THEN <<>> ELSE NatDigits(carry))
    ELSE LET v == x[Len(x)] * k + carry
         IN  Append(MulDigits(SubSeq(x, 1, Len(x) - 1), k, v \div 10), v % 10)

RECURSIVE TimesPow1024(_, _)
TimesPow1024(x, pow) ==
    IF pow = 0 THEN x ELSE TimesPow1024(MulDigits(x, KB, 0), pow - 1)

\* what uint64(f) can be when f is 2^64 or more, an infinity or not a
\* number: the conversion is
\* implementation-dependent; builds give 0, 2^63 or 2^64 - 1
OutOfRange == {<<0>>, DoubleN(<<1>>, 63), Minus1(TwoTo64)}

\* uint64(num * float64(multiplier)) for num >= 0: the product with its
\* fraction dropped.  The multipliers are powers of two, so the product of
\* the floats is exact.  The result is the set of values a build can give.
ToUint64(num, pow) ==
    IF num.special # "none" THEN OutOfRange
    ELSE IF num.zero THEN {<<0>>}
    ELSE LET p == TimesPow1024(num.val.mant, pow)
             v == IF num.val.exp >= 0 THEN DoubleN(p, num.val.exp)
                  ELSE HalveN(p, -num.val.exp)
         IN  IF Less(v, TwoTo64) THEN {v} ELSE OutOfRange

Failure == [val |-> <<0>>, err |-> TRUE]

\* no call has returned: a returned value has at least one digit
NoResult == [val |-> <<>>, err |-> FALSE]

\* the switch of ParseSize: the first unit, longest first, that ends s
RECURSIVE SplitUnit(_, _)
SplitUnit(s, k) ==
    IF k > Len(Units) THEN [numStr |-> s, pow |-> 0]
    ELSE IF HasSuffix(s, Units[k].suffix)
         THEN [numStr |-> TrimSuffix(s, Units[k].suffix), pow |-> Units[k].pow]
    ELSE SplitUnit(s, k + 1)

\* func ParseSize(s string) (uint64, error): what a call can return
ParseSize(str) ==
    LET s == TrimSpace(ToUpper(str))
    IN  IF s = <<>> THEN {Failure}
        ELSE LET split == SplitUnit(s, 1)
                 num == ParseFloat(TrimSpace(split.numStr))
             IN  IF ~num.ok THEN {Failure}
                 ELSE IF IsNegative(num) THEN {Failure}
                 ELSE {[val |-> v, err |-> FALSE] : v \in ToUint64(num, split.pow)}

\* a call of ParseSize
CallParseSize ==
    /\ result = NoResult
    /\ result' \in ParseSize(Flatten(input))
    /\ UNCHANGED <<handleVars, stageVars, input, formatVars, envVars, layout>>

----------------------------------------------------------------------------
(* HumanSize *)

\* the characters of a number
DigitChars(x) == [i \in DOMAIN x |-> Digit(x[i])]

\* KB, MB, GB, TB as 1024^pow; 1 for pow = 0
Threshold(pow) == TimesPow1024(<<1>>, pow)

\* float64(bytes) / float64(unit): the byte count rounded to a float64,
\* then an exact division by a power of two
InUnits(b, pow) ==
    LET f == Round53(b, FALSE)
    IN  [mant |-> f.mant, exp |-> f.exp - 10 * pow]

\* fmt.Sprintf("%.<prec>f", f) for f >= 0: f * 10^prec rounded to the
\* nearest integer, ties to the even one, with a point before its last
\* prec digits
FormatFixed(f, prec) ==
    LET n == StripZeros(f.mant \o [i \in 1 .. prec |-> 0])
        s == ShiftRight([q |-> n, rb |-> FALSE, st |-> FALSE, sh |-> 0],
                        IF f.exp < 0 THEN -f.exp ELSE 0)
        t == IF f.exp >= 0 THEN DoubleN(n, f.exp)
             ELSE IF s.rb /\ (s.st \/ IsOdd(s.q)) THEN Plus(s.q, <<1>>)
             ELSE s.q
        p == [i \in 1 .. prec + 1 - Len(t) |-> 0] \o t
    IN  DigitChars(SubSeq(p, 1, Len(p) - prec)) \o <<".">>
          \o DigitChars(SubSeq(p, Len(p) - prec + 1, Len(p)))

\* HumanSize with every threshold belonging to the lower unit
HumanSize_Above(b) ==
    IF Less(Threshold(4), b)
    THEN FormatFixed(InUnits(b, 4), 2) \o <<SP, "T", "B">>
    ELSE IF Less(Threshold(3), b)
    THEN FormatFixed(InUnits(b, 3), 1) \o <<SP, "G", "B">>
    ELSE IF Less(Threshold(2), b)
    THEN FormatFixed(InUnits(b, 2), 1) \o <<SP, "M", "B">>
    ELSE IF Less(Threshold(1), b)
    THEN FormatFixed(InUnits(b, 1), 1) \o <<SP, "K", "B">>
    ELSE DigitChars(b) \o <<SP, "B">>

\* func HumanSize(bytes uint64) string
HumanSize(b) ==
    IF ~Less(b, Threshold(4))
    THEN FormatFixed(InUnits(b, 4), 2) \o <<SP, "T", "B">>
    ELSE IF ~Less(b, Threshold(3))
    THEN FormatFixed(InUnits(b, 3), 1) \o <<SP, "G", "B">>
    ELSE IF ~Less(b, Threshold(2))
    THEN FormatFixed(InUnits(b, 2), 1) \o <<SP, "M", "B">>
    ELSE IF ~Less(b, Threshold(1))
    THEN FormatFixed(InUnits(b, 1), 1) \o <<SP, "K", "B">>
    ELSE DigitChars(b) \o <<SP, "B">>

\* a call of HumanSize; its result is then the argument of ParseSize
CallHumanSize ==
    /\ human = <<>>
    /\ human' = HumanSize(bytes)
    /\ input' = <<HumanSize(bytes)>>
    /\ UNCHANGED <<handleVars, stageVars, result, bytes, again, durVars, pathVars, envVars, layout>>

\* ParseSize(HumanSize(bytes))
ParseHuman == human # <<>> /\ CallParseSize

\* HumanSize(v) for the value v that ParseSize returned
CallHumanSizeAgain ==
    /\ result # NoResult
    /\ ~result.err
    /\ again = <<>>
    /\ again' = HumanSize(result.val)
    /\ UNCHANGED <<handleVars, stageVars, parseVars, bytes, human, durVars, pathVars, envVars, layout>>

\* x - n, for x >= n
RECURSIVE Minus(_, _)
Minus(x, n) == IF n = 0 THEN x ELSE Minus(Minus1(x), n - 1)

\* the byte counts tried: up to MaxUnits of each unit, and the largest
\* uint64, each less up to MaxBelow
ByteCounts ==
    LET tops == {TimesPow1024(NatDigits(n), pow) : n \in 1 .. MaxUnits, pow \in 0 .. 4}
                  \cup {Minus1(TwoTo64)}
    IN  {Minus(p[1], p[2]) :
           p \in {q \in tops \X (0 .. MaxBelow) : ~Less(q[1], NatDigits(q[2]))}}

----------------------------------------------------------------------------
(* HumanDuration.  A time.Duration is a count of nanoseconds: its sign and *)
(* its magnitude.                                                          *)

\* a number small enough for the model's integers
RECURSIVE ToInt(_)
ToInt(x) == IF Len(x) <= 1 THEN x[1] ELSE 10 * ToInt(SubSeq(x, 1, Len(x) - 1)) + x[Len(x)]

\* x \div 10^n and x % 10^n
DropDigits(x, n) == IF Len(x) <= n THEN <<0>> ELSE SubSeq(x, 1, Len(x) - n)

LastDigits(x, n) == IF Len(x) <= n THEN x ELSE StripZeros(SubSeq(x, Len(x) - n + 1, Len(x)))

\* the magnitude of int64(d.Seconds()).  Seconds() is
\* float64(sec) + float64(nsec)/1e9 with sec = d / Second, nsec = d % Second:
\* the quotient is rounded to a float64, and so is the sum
WholeSeconds(ns) ==
    LET sec == DropDigits(ns, 9)
        nsec == LastDigits(ns, 9)
        frac == DecimalToFloat(nsec, 9)
        sum == Round53(Plus(DoubleN(sec, -frac.exp), frac.mant), FALSE)
        e == sum.exp + frac.exp
    IN  IF nsec = <<0>> THEN ToInt(sec)
        ELSE ToInt(IF e >= 0 THEN DoubleN(sum.mant, e) ELSE HalveN(sum.mant, -e))

\* d.Milliseconds(), as text
Milliseconds(d) ==
    LET ms == DropDigits(d.ns, 6)
    IN  (IF d.neg /\ ms # <<0>> THEN <<"-">> ELSE <<>>) \o DigitChars(ms)

\* func HumanDuration(d time.Duration) string.  Go's / and % truncate
\* towards zero; past the first two cases secs is 60 or more
HumanDuration(d) ==
    LET sign == IF d.neg THEN -1 ELSE 1
        secs == sign * WholeSeconds(d.ns)
        millis == sign * ToInt(LastDigits(DropDigits(d.ns, 6), 3))
    IN  IF secs = 0 THEN Milliseconds(d) \o <<"m", "s">>
        ELSE IF secs < 60
        THEN Itoa(secs) \o <<".">> \o Itoa(sign * ((sign * millis) \div 100)) \o <<"s">>
        ELSE IF secs < 3600
        THEN Itoa(secs \div 60) \o <<"m", SP>> \o Itoa(secs % 60) \o <<"s">>
        ELSE Itoa(secs \div 3600) \o <<"h", SP>> \o Itoa((secs % 3600) \div 60) \o <<"m">>

\* a call of HumanDuration
CallHumanDuration ==
    /\ durText = <<>>
    /\ durText' = HumanDuration(dur)
    /\ UNCHANGED <<handleVars, stageVars, parseVars, sizeVars, dur, pathVars, envVars, layout>>

\* the first whole minute past 2^24 seconds: from 2^24 seconds on, float64s
\* are more than two nanoseconds apart
LongRun == 279621 * 60

\* the durations tried: the first second, minute and hour and LongRun, each
\* less up to MaxBelow seconds, with a part of a second, and their negations
SubSeconds == {0, 1, 99999999, 100000000, 999000000, 999999999}

Durations ==
    LET secs == {m - k : m \in {1, 60, 3600, LongRun}, k \in 0 .. MaxBelow} \cap Nat
        pad(x) == [i \in 1 .. 9 - Len(x) |-> 0] \o x
        all == {[neg |-> b, ns |-> StripZeros(NatDigits(s) \o pad(NatDigits(n)))] :
                  s \in secs, n \in SubSeconds, b \in BOOLEAN}
    IN  {d \in all : d.neg => d.ns # <<0>>}

----------------------------------------------------------------------------
(* TruncatePath.  A Go string is a sequence of bytes; len and slicing      *)
(* count bytes.  A character outside ASCII is several bytes in UTF-8: a    *)
(* lead byte and continuation bytes.                                       *)

\* the UTF-8 bytes of e with an acute accent (U+00E9)
EAcute == <<"C3", "A9">>

\* the characters of the paths tried, each as its bytes
PathChars == {<<"a">>, <<"/">>, EAcute}

\* a continuation byte of a multi-byte character (0x80 to 0xBF)
IsContinuation(b) == b = "A9"

Dots == <<".", ".", ".">>

NotTruncated == [done |-> FALSE, text |-> <<>>]

\* TruncatePath returning the path only when it is shorter than the limit
TruncatePath_Shorter(p, n) ==
    IF Len(p) < n THEN p
    ELSE IF n <= 3 THEN Dots
    ELSE Dots \o SubSeq(p, Len(p) - n + 3 + 1, Len(p))

\* func TruncatePath(path string, maxLen int) string.  path[k:] is the
\* bytes from index k, counted from 0
TruncatePath(p, n) ==
    IF Len(p) <= n THEN p
    ELSE IF n <= 3 THEN Dots
    ELSE Dots \o SubSeq(p, Len(p) - n + 3 + 1, Len(p))

\* a call of TruncatePath
CallTruncatePath ==
    /\ ~truncated.done
    /\ truncated' = [done |-> TRUE, text |-> TruncatePath(path, maxLen)]
    /\ UNCHANGED <<handleVars, stageVars, parseVars, sizeVars, durVars, path, maxLen, envVars, layout>>

\* the paths tried: up to MaxPath characters
RECURSIVE PathsOf(_)
PathsOf(n) ==
    IF n = 0 THEN {<<>>}
    ELSE LET shorter == PathsOf(n - 1)
         IN  shorter \cup {p \o c : p \in shorter, c \in PathChars}

Paths == PathsOf(MaxPath)

\* the limits tried: negative, zero, and up to the longest path in bytes
Limits == -1 .. 2 * MaxPath

----------------------------------------------------------------------------
(* Layout.  A call that panics ends the program.                           *)

LId == <<"layout", 0>>

NoLayout == layout = [op |-> "none", n |-> 0, panicked |-> FALSE]

\* strings.Repeat(s, count): count copies of s; it panics when count is
\* negative
RepeatPanics(count) == count < 0

Repeat(s, count) == [i \in 1 .. count |-> s]

\* c.Println(s) of fatih/color: the styled text and a newline
StyledLine(code, s) ==
    (IF noColor THEN <<>> ELSE <<code>>) \o s \o (IF noColor THEN <<>> ELSE <<"ESC[0m">>)
      \o <<LF>>

\* a layout function that returns after writing the lines
LayoutReturns(op, n, lines) ==
    /\ caller = Idle
    /\ calls < MaxCalls
    /\ ~layout.panicked
    /\ out' = out \o [i \in DOMAIN lines |-> Write("stdout", LId, op, lines[i])]
    /\ layout' = [op |-> op, n |-> n, panicked |-> FALSE]
    /\ calls' = calls + 1
    /\ UNCHANGED <<colorVars, spinners, caller, frames, bars, stageVars, parseVars,
                   formatVars, envVars>>

\* a layout function that panics before writing
LayoutPanics(op, n) ==
    /\ caller = Idle
    /\ calls < MaxCalls
    /\ ~layout.panicked
    /\ layout' = [op |-> op, n |-> n, panicked |-> TRUE]
    /\ calls' = calls + 1
    /\ UNCHANGED <<colorVars, out, spinners, caller, frames, bars, stageVars, parseVars,
                   formatVars, envVars>>

\* func Header(title string): a blank line, the title in bold, and a faint
\* rule of len(title) dashes
Header(title) ==
    LayoutReturns("Header", Len(title),
                  << <<LF>>, StyledLine("ESC[1m", title),
                     StyledLine("ESC[2m", Repeat("dash", Len(title))) >>)

\* func Section(title string)
Section(title) ==
    LayoutReturns("Section", 0, << <<LF>>, StyledLine("ESC[36;1m", title) >>)

\* func KV(key, value string)
KV(key, value) ==
    LayoutReturns("KV", 0,
                  << <<SP, SP>> \o FaintString(key) \o <<":", SP>> \o value \o <<LF>> >>)

\* func Step(num, total int, msg string)
Step(num, total, msg) ==
    LayoutReturns("Step", num,
                  << Styled("ESC[34;1m", <<"[">> \o Itoa(num) \o <<"/">> \o Itoa(total) \o <<"]">>)
                       \o <<SP>> \o msg \o <<LF>> >>)

\* func Blank()
Blank == LayoutReturns("Blank", 0, << <<LF>> >>)

\* func Divider(width int)
Divider(width) ==
    IF RepeatPanics(width) THEN LayoutPanics("Divider", width)
    ELSE LayoutReturns("Divider", width, << StyledLine("ESC[2m", Repeat("dash", width)) >>)

\* func Indent(level int, msg string)
Indent(level, msg) ==
    IF RepeatPanics(level) THEN LayoutPanics("Indent", level)
    ELSE LayoutReturns("Indent", level,
                       << Flatten(Repeat(<<SP, SP>>, level)) \o msg \o <<LF>> >>)

\* the arguments tried
Texts == {<<>>, <<"a">>}

Widths == -1 .. MaxWidth

----------------------------------------------------------------------------
(* ColorState: the colour flag set from the environment by init().         *)

EnvNames == {"NO_COLOR", "CLICOLOR_FORCE", "CLICOLOR"}

\* an environment variable is unset, or set to a value
Unset == [set |-> FALSE, val |-> ""]

EnvValues == {Unset} \cup {[set |-> TRUE, val |-> v] : v \in {"", "0", "1"}}

NonEmpty(x) == x.set /\ x.val # ""

\* a truthy value: set, not empty and not "0"
Truthy(x) == NonEmpty(x) /\ x.val # "0"

\* init() looking at CLICOLOR_FORCE before NO_COLOR
ColorEnabled_ForceFirst(e, tty) ==
    IF Truthy(e["CLICOLOR_FORCE"]) THEN TRUE
    ELSE IF NonEmpty(e["NO_COLOR"]) THEN FALSE
    ELSE IF e["CLICOLOR"].set THEN e["CLICOLOR"].val # "0"
    ELSE tty

\* what init() decides: NO_COLOR, else CLICOLOR_FORCE, else CLICOLOR, else
\* the terminal check
ColorEnabled(e, tty) ==
    IF NonEmpty(e["NO_COLOR"]) THEN FALSE
    ELSE IF Truthy(e["CLICOLOR_FORCE"]) THEN TRUE
    ELSE IF e["CLICOLOR"].set THEN e["CLICOLOR"].val # "0"
    ELSE tty

\* init()
ColorInit ==
    /\ ~inited
    /\ noColor' = ~ColorEnabled(env, isTerminal)
    /\ inited' = TRUE
    /\ UNCHANGED <<icons, out, spinners, caller, calls, frames, bars, stageVars,
                   parseVars, formatVars, env, isTerminal, layout>>

----------------------------------------------------------------------------
(* Specifications *)

\* the state of the components a specification does not exercise
NoStage == sp = [current |-> 0, total |-> 0] /\ stageCalls = 0

NoParse == input = <<>> /\ result = NoResult

NoSize == bytes = <<0>> /\ human = <<>> /\ again = <<>>

NoDuration == dur = [neg |-> FALSE, ns |-> <<0>>] /\ durText = <<>>

NoPath == path = <<>> /\ maxLen = 0 /\ truncated = NotTruncated

NoFormat == NoSize /\ NoDuration /\ NoPath

NoEnv == env = [v \in EnvNames |-> Unset] /\ isTerminal = TRUE /\ inited = FALSE

InitHandles ==
    /\ NoStage
    /\ NoParse
    /\ NoFormat
    /\ noColor \in BOOLEAN
    /\ icons = IconsAt(noColor)
    /\ NoEnv
    /\ NoLayout
    /\ out = <<>>
    /\ spinners = <<>>
    /\ bars = <<>>
    /\ caller = Idle
    /\ calls = 0
    /\ frames = 0

NextHandles ==
    \/ \E m \in InitMsgs : Spinner(m)
    \/ \E h \in DOMAIN spinners : TickSelect(h)
    \/ \E h \in DOMAIN spinners : TickDraw(h)
    \/ \E h \in DOMAIN spinners, op \in FinishOps, m \in FinalMsgs : FinishStop(h, op, m)
    \/ FinishPrint
    \/ \E h \in DOMAIN spinners, m \in Msgs : UpdateMessage(h, m)
    \/ \E t \in BarTotals, m \in InitMsgs : Bar(t, m)
    \/ \E h \in DOMAIN bars, op \in {"Success", "Error"}, m \in FinalMsgs : BarFinish(h, op, m)
    \/ BarFinishPrint
    \/ \E h \in DOMAIN bars : BarClear(h)

\* a spinner with the steps of its mutex
NextMutex ==
    \/ \E m \in InitMsgs : Spinner(m)
    \/ \E h \in DOMAIN spinners : TickSelect(h)
    \/ \E h \in DOMAIN spinners : TickLock(h)
    \/ \E h \in DOMAIN spinners : TickUnlock(h)
    \/ \E h \in DOMAIN spinners, op \in FinishOps, m \in FinalMsgs : LockedFinishStop(h, op, m)
    \/ FinishPrint
    \/ \E h \in DOMAIN spinners, m \in Msgs : UpdateMessageBegin(h, m)
    \/ UpdateMessageEnd

SpecMutex == InitHandles /\ [][NextMutex]_vars

\* the layout functions
NextLayout ==
    \/ \E t \in Texts : Header(t)
    \/ \E t \in Texts : Section(t)
    \/ \E k \in Texts : KV(k, <<"a">>)
    \/ \E n \in {0, 1} : Step(n, 1, <<"a">>)
    \/ Blank
    \/ \E w \in Widths : Divider(w)
    \/ \E l \in Widths, m \in Texts : Indent(l, m)

SpecLayout == InitHandles /\ [][NextLayout]_vars

\* a bar updated with Add and Set
NextBar ==
    \/ \E t \in UpdatedBarTotals, m \in InitMsgs : Bar(t, m)
    \/ \E h \in DOMAIN bars, n \in AddAmounts : BarAdd(h, n)
    \/ \E h \in DOMAIN bars, n \in SetValues : BarSet(h, n)
    \/ \E h \in DOMAIN bars, op \in {"Success", "Error"}, m \in FinalMsgs : BarFinish(h, op, m)
    \/ BarFinishPrint
    \/ \E h \in DOMAIN bars : BarClear(h)

SpecBar == InitHandles /\ [][NextBar]_vars

\* the handles and the message functions
NextStreams ==
    \/ NextHandles
    \/ \E op \in MessageOps, m \in FinalMsgs : Message(op, m)

SpecStreams == InitHandles /\ [][NextStreams]_vars

\* the handles and the message functions, with the colour flag switched
\* at run time
NextColor ==
    \/ NextStreams
    \/ \E b \in BOOLEAN : SetNoColor(b)

SpecColor == InitHandles /\ [][NextColor]_vars

\* init() in every environment
InitEnv ==
    /\ NoStage
    /\ NoParse
    /\ NoFormat
    /\ noColor = FALSE
    /\ icons = IconsAt(noColor)
    /\ out = <<>>
    /\ spinners = <<>>
    /\ bars = <<>>
    /\ caller = Idle
    /\ calls = 0
    /\ frames = 0
    /\ env \in [EnvNames -> EnvValues]
    /\ isTerminal \in BOOLEAN
    /\ inited = FALSE
    /\ NoLayout

NextEnv == ColorInit

SpecEnv == InitEnv /\ [][NextEnv]_vars

InitStage ==
    /\ NoParse
    /\ NoFormat
    /\ noColor \in BOOLEAN
    /\ icons = IconsAt(noColor)
    /\ NoEnv
    /\ NoLayout
    /\ out = <<>>
    /\ spinners = <<>>
    /\ bars = <<>>
    /\ caller = Idle
    /\ calls = 0
    /\ frames = 0
    /\ \E total \in StageTotals : sp = NewStageProgress(total)
    /\ stageCalls = 0

NextStage ==
    \/ \E n \in StageNames : Next(n)
    \/ \E n \in StageNames : Skip(n)
    \/ \E h \in DOMAIN spinners : TickSelect(h)
    \/ \E h \in DOMAIN spinners : TickDraw(h)
    \/ \E h \in DOMAIN spinners, op \in StageFinishOps, m \in FinalMsgs : FinishStop(h, op, m)
    \/ FinishPrint

SpecStage == InitStage /\ [][NextStage]_vars

InitParse ==
    /\ NoStage
    /\ NoFormat
    /\ noColor = FALSE
    /\ icons = IconsAt(noColor)
    /\ NoEnv
    /\ NoLayout
    /\ out = <<>>
    /\ spinners = <<>>
    /\ bars = <<>>
    /\ caller = Idle
    /\ calls = 0
    /\ frames = 0
    /\ \E n \in 0 .. MaxLen : input \in [1 .. n -> Pieces]
    /\ result = NoResult

NextParse == CallParseSize

SpecParse == InitParse /\ [][NextParse]_vars

\* ParseSize on whole numbers
InitParseInt ==
    /\ NoStage
    /\ NoFormat
    /\ noColor = FALSE
    /\ icons = IconsAt(noColor)
    /\ NoEnv
    /\ NoLayout
    /\ out = <<>>
    /\ spinners = <<>>
    /\ bars = <<>>
    /\ caller = Idle
    /\ calls = 0
    /\ frames = 0
    /\ \E n \in 0 .. MaxLen : input \in [1 .. n -> IntPieces]
    /\ result = NoResult

SpecParseInt == InitParseInt /\ [][NextParse]_vars

\* ParseSize on numbers that are large or not finite
InitParseRange ==
    /\ NoStage
    /\ NoFormat
    /\ noColor = FALSE
    /\ icons = IconsAt(noColor)
    /\ NoEnv
    /\ NoLayout
    /\ out = <<>>
    /\ spinners = <<>>
    /\ bars = <<>>
    /\ caller = Idle
    /\ calls = 0
    /\ frames = 0
    /\ \E n \in 0 .. MaxLen : input \in [1 .. n -> RangePieces]
    /\ result = NoResult

SpecParseRange == InitParseRange /\ [][NextParse]_vars

\* HumanSize, ParseSize on what it returned, HumanSize on the value parsed
InitSize ==
    /\ NoStage
    /\ NoParse
    /\ noColor = FALSE
    /\ icons = IconsAt(noColor)
    /\ NoEnv
    /\ NoLayout
    /\ out = <<>>
    /\ spinners = <<>>
    /\ bars = <<>>
    /\ caller = Idle
    /\ calls = 0
    /\ frames = 0
    /\ bytes \in ByteCounts
    /\ human = <<>>
    /\ again = <<>>
    /\ NoDuration
    /\ NoPath

NextSize ==
    \/ CallHumanSize
    \/ ParseHuman
    \/ CallHumanSizeAgain

SpecSize == InitSize /\ [][NextSize]_vars

\* HumanDuration
InitDuration ==
    /\ NoStage
    /\ NoParse
    /\ NoSize
    /\ noColor = FALSE
    /\ icons = IconsAt(noColor)
    /\ NoEnv
    /\ NoLayout
    /\ out = <<>>
    /\ spinners = <<>>
    /\ bars = <<>>
    /\ caller = Idle
    /\ calls = 0
    /\ frames = 0
    /\ dur \in Durations
    /\ durText = <<>>
    /\ NoPath

NextDuration == CallHumanDuration

SpecDuration == InitDuration /\ [][NextDuration]_vars

\* TruncatePath
InitPath ==
    /\ NoStage
    /\ NoParse
    /\ NoSize
    /\ NoDuration
    /\ noColor = FALSE
    /\ icons = IconsAt(noColor)
    /\ NoEnv
    /\ NoLayout
    /\ out = <<>>
    /\ spinners = <<>>
    /\ bars = <<>>
    /\ caller = Idle
    /\ calls = 0
    /\ frames = 0
    /\ path \in Paths
    /\ maxLen \in Limits
    /\ truncated = NotTruncated

NextPath == CallTruncatePath

SpecPath == InitPath /\ [][NextPath]_vars

SpecHandles == InitHandles /\ [][NextHandles]_vars

----------------------------------------------------------------------------
(* Properties of the handles *)

\* positions of out written by handle id with a kind among kinds
Written(id, kinds) == {p \in DOMAIN out : out[p].by = id /\ out[p].kind \in kinds}

Min(S) == CHOOSE x \in S : \A y \in S : x <= y

Max(S) == CHOOSE x \in S : \A y \in S : x >= y

\* the last write of handle id is of kind k
LastIs(id, k) ==
    /\ Written(id, {k}) # {}
    /\ Max(Written(id, {k})) = Max({p \in DOMAIN out : out[p].by = id})

\* C1: no frame of a spinner is drawn after the output of a finishing call
\* on it, and the spinner is no longer active when the finishing call is
\* about to emit its output.
C1_NoRedrawAfterFinal ==
    /\ \A h \in DOMAIN spinners :
         \A p \in Written(SId(h), {"final", "clear"}) :
           \A q \in Written(SId(h), {"frame"}) : q < p
    /\ caller.op \in FinishOps => ~spinners[caller.h].active

\* C1 witness: frames were drawn, a final line followed, the goroutine exited
C1_Witness ==
    \E h \in DOMAIN spinners :
      /\ Written(SId(h), {"frame"}) # {}
      /\ Written(SId(h), {"final"}) # {}
      /\ spinners[h].tpc = "exited"

FinalLines ==
    { <<CR>> \o icon \o <<SP>> \o m \o <<LF>> :
        icon \in {GreenString(<<"check">>), RedString(<<"cross">>),
                  YellowString(<<"warn">>)},
        m \in FinalMsgs }

\* C2: the first finishing call on a spinner halts the animation, then the
\* line is erased, then the final line "\r<icon> <message>\n" is printed;
\* Clear writes the erase sequence and no line.
C2_HaltEraseThenFinal ==
    /\ \A h \in DOMAIN spinners :
         LastIs(SId(h), "erase") => ~spinners[h].active
    /\ (caller.op \in FinishOps /\ spinners[caller.h].done = 0) =>
         LastIs(SId(caller.h), "erase")
    /\ \A h \in DOMAIN spinners :
         spinners[h].done > 0 =>
           LET q == Min(Written(SId(h), {"final", "clear"}))
               before == {p \in DOMAIN out : out[p].by = SId(h) /\ p < q}
           IN  /\ before # {}
               /\ out[Max(before)].kind = "erase"
               /\ out[Max(before)].text = <<CR, EL>>
               /\ out[q].kind = "final" => out[q].text \in FinalLines
               /\ out[q].kind = "clear" => out[q].text = <<CR, EL>>

\* C2 witness: a spinner that drew a frame and was then cleared
C2_Witness ==
    \E h \in DOMAIN spinners :
      /\ spinners[h].done = 1
      /\ Written(SId(h), {"frame"}) # {}
      /\ Written(SId(h), {"clear"}) # {}

\* C3 as claimed: a handle writes the output of at most one finishing call
C3_SecondFinishSilent ==
    /\ \A h \in DOMAIN spinners :
         Cardinality(Written(SId(h), {"final", "clear"})) <= 1
    /\ \A h \in DOMAIN bars :
         Cardinality(Written(BId(h), {"final", "clear"})) <= 1

\* C3 amended: a finished spinner draws no frame and erases nothing again,
\* but every finishing call on a spinner or a bar, the second included,
\* writes its final output.
C3_SecondFinishWrites ==
    /\ \A h \in DOMAIN spinners :
         /\ Cardinality(Written(SId(h), {"final", "clear"})) = spinners[h].done
         /\ \A p \in Written(SId(h), {"final", "clear"}) :
              \A q \in Written(SId(h), {"frame", "erase"}) : q < p
    /\ \A h \in DOMAIN bars :
         Cardinality(Written(BId(h), {"final", "clear"})) = bars[h].done

\* C3 witness: two finishing calls on one spinner have returned
C3_Witness ==
    \E h \in DOMAIN spinners :
      /\ spinners[h].done = 2
      /\ Cardinality(Written(SId(h), {"final"})) = 2

\* C4 as claimed: UpdateMessage changes the message only (nothing is
\* written, the spinner stays as it was), and every frame drawn by an
\* iteration of the goroutine that began after UpdateMessage returned shows
\* the message last set.
C4_UpdateMessageShown ==
    [][ \A h \in DOMAIN spinners :
          /\ spinners'[h].Suffix # spinners[h].Suffix =>
                /\ out' = out
                /\ spinners'[h].active = spinners[h].active
                /\ spinners'[h].tpc = spinners[h].tpc
          /\ ( /\ Len(out') > Len(out)
               /\ out'[Len(out')].by = SId(h)
               /\ out'[Len(out')].kind = "frame"
               /\ spinners[h].iter = spinners[h].Suffix ) =>
                out'[Len(out')].text = FrameText(spinners[h], spinners[h].Suffix)
      ]_vars

----------------------------------------------------------------------------
(* Properties of StageProgress *)

\* text t contains the text u
Contains(t, u) ==
    \E i \in 1 .. (Len(t) - Len(u) + 1) : SubSeq(t, i, i + Len(u) - 1) = u

\* C5: Current() is the number of Next and Skip calls made so far, whatever
\* else was done in between (frames drawn, stage spinners finished).
C5_CurrentCountsCalls == Current = stageCalls

\* C5 witness: a Next, a Skip, and a finishing call on the returned spinner
C5_Witness ==
    /\ stageCalls = 2
    /\ Written(<<"stage", 0>>, {"skip"}) # {}
    /\ \E h \in DOMAIN spinners : spinners[h].done = 1

\* C6: for a total N >= 0, IsComplete() holds exactly when at least N calls
\* to Next or Skip were made, and after exactly N calls Current() is N.
C6_CompleteIffEnoughCalls ==
    Total >= 0 =>
      /\ IsComplete <=> stageCalls >= Total
      /\ stageCalls = Total => Current = Total

\* C6 witness: the last of N > 0 stages has been started
C6_Witness ==
    /\ Total > 0
    /\ stageCalls = Total
    /\ IsComplete

\* C7: Next and Skip are accepted when current >= total, and once
\* IsComplete() is true it stays true.
C7_CompleteStaysComplete ==
    /\ [][IsComplete => IsComplete']_vars
    /\ []( (IsComplete /\ caller = Idle /\ calls < MaxCalls) =>
             /\ ENABLED (\E n \in StageNames : Next(n))
             /\ ENABLED (\E n \in StageNames : Skip(n)) )

\* C7 witness: current is above a total that is not negative
C7_Witness ==
    /\ Total >= 0
    /\ Current > Total

\* C8 as claimed: current and total are never negative
C8_NonNegative ==
    /\ sp.current >= 0
    /\ sp.total >= 0

\* C9: the k-th call to Next or Skip shows "[k/N] ": Next returns a spinner
\* with that prefix that is running, and its frames carry the prefix; Skip
\* prints one line with it and starts no spinner.
C9_PrefixIsCallNumber ==
    [][ /\ stageCalls' = stageCalls + 1 =>
             \/ /\ Len(spinners') = Len(spinners) + 1
                /\ out' = out
                /\ spinners'[Len(spinners')].Prefix = StagePrefix(stageCalls', Total)
                /\ spinners'[Len(spinners')].active
                /\ spinners'[Len(spinners')].tpc = "select"
             \/ /\ spinners' = spinners
                /\ Len(out') = Len(out) + 1
                /\ out'[Len(out')].kind = "skip"
                /\ Contains(out'[Len(out')].text, StagePrefix(stageCalls', Total))
        /\ \A h \in DOMAIN spinners :
             ( /\ Len(out') > Len(out)
               /\ out'[Len(out')].by = SId(h)
               /\ out'[Len(out')].kind = "frame" ) =>
                 SubSeq(out'[Len(out')].text, 2, 1 + Len(spinners[h].Prefix))
                   = spinners[h].Prefix
      ]_vars

\* C9 witness: the second call was Next, its spinner drew a frame with
\* "[2/N] ", and the other call was Skip
C9_Witness ==
    /\ Written(<<"stage", 0>>, {"skip"}) # {}
    /\ \E h \in DOMAIN spinners :
         /\ spinners[h].Prefix = <<"[", "2", "/">> \o Itoa(Total) \o <<"]", SP>>
         /\ \E p \in Written(SId(h), {"frame"}) :
              Contains(out[p].text, spinners[h].Prefix)

----------------------------------------------------------------------------
(* Properties of ParseSize *)

\* the input without surrounding blanks, in upper case
Core == TrimSpace(ToUpper(Flatten(input)))

\* the longest unit the input ends with, <<>> if none
CoreUnit ==
    LET us == {u \in {<<"T", "B">>, <<"G", "B">>, <<"M", "B">>, <<"K", "B">>, <<"B">>} :
                 HasSuffix(Core, u)}
    IN  IF us = {} THEN <<>> ELSE CHOOSE u \in us : \A v \in us : Len(v) <= Len(u)

\* what precedes the unit
CoreNumber == TrimSpace(SubSeq(Core, 1, Len(Core) - Len(CoreUnit)))

\* t is digits with at most one point and at least one digit
IsMantissa(t) ==
    /\ \E i \in DOMAIN t : IsDigit(t[i])
    /\ \A i \in DOMAIN t : IsDigit(t[i]) \/ t[i] = "."
    /\ Cardinality({i \in DOMAIN t : t[i] = "."}) <= 1

\* t is digits, at least one, after an optional sign
IsExponent(t) ==
    LET ds == IF t # <<>> /\ t[1] \in {"+", "-"} THEN Tail(t) ELSE t
    IN  ds # <<>> /\ \A i \in DOMAIN ds : IsDigit(ds[i])

\* t is a mantissa, or a mantissa, "E" and an exponent
IsUnsigned(t) ==
    \/ IsMantissa(t)
    \/ \E i \in DOMAIN t :
         /\ t[i] = "E"
         /\ IsMantissa(SubSeq(t, 1, i - 1))
         /\ IsExponent(SubSeq(t, i + 1, Len(t)))

IsNumber(t) ==
    \/ IsUnsigned(t)
    \/ t # <<>> /\ t[1] \in {"+", "-"} /\ IsUnsigned(Tail(t))

\* t is a number below zero: a minus sign and a mantissa that is not zero
IsBelowZero(t) ==
    /\ IsNumber(t)
    /\ t[1] = "-"
    /\ \E i \in DOMAIN t :
         /\ IsDigit(t[i]) /\ t[i] # "0"
         /\ \A j \in 1 .. i : t[j] # "E"

\* C10: ParseSize fails, with the value 0, for blank input, for a unit
\* without a number, for a numeric part that is no number and for a number
\* below zero; it fails for nothing else.
C10_FailsExactlyOnBadInput ==
    result # NoResult =>
      /\ result.err <=>
           \/ \A i \in DOMAIN Flatten(input) : IsSpace(Flatten(input)[i])
           \/ CoreUnit # <<>> /\ CoreNumber = <<>>
           \/ ~IsNumber(CoreNumber)
           \/ IsBelowZero(CoreNumber)
      /\ result.err => result.val = <<0>>

\* C10 without its case of numbers below zero: ParseSize fails, with the
\* value 0, for blank input, for a unit without a number and for a numeric
\* part that is no number; when it fails for anything else, the number is
\* below zero.
C10_FailsOnBadInput ==
    result # NoResult =>
      /\ ( \/ \A i \in DOMAIN Flatten(input) : IsSpace(Flatten(input)[i])
           \/ CoreUnit # <<>> /\ CoreNumber = <<>>
           \/ ~IsNumber(CoreNumber) ) => result.err
      /\ result.err /\ IsNumber(CoreNumber) => IsBelowZero(CoreNumber)
      /\ result.err => result.val = <<0>>

\* the number spelled by digits
DigitsOf(t) == StripZeros([i \in DOMAIN t |-> DigitVal(t[i])])

IsWhole(t) == t # <<>> /\ \A i \in DOMAIN t : IsDigit(t[i])

\* the number of factors of 1024 in the multiplier of the input's unit
CorePow ==
    IF CoreUnit = <<>> THEN 0
    ELSE Units[CHOOSE k \in DOMAIN Units : Units[k].suffix = CoreUnit].pow

\* C11: for a whole number n, a unit in any case or none, and blanks
\* around them, ParseSize returns n times the unit's multiplier (1, 1,
\* 1024, 1024^2, 1024^3, 1024^4), the unit being the longest that ends the
\* input.
C11_WholeTimesUnit ==
    result # NoResult /\ IsWhole(CoreNumber) =>
      /\ ~result.err
      /\ result.val = TimesPow1024(DigitsOf(CoreNumber), CorePow)

\* C11 for the numbers a float64 holds exactly: when n is at most 2^53 and
\* the product is below 2^64, ParseSize returns the product.
C11_WholeTimesUnitExact ==
    result # NoResult /\ IsWhole(CoreNumber)
      /\ ~Less(TwoTo53, DigitsOf(CoreNumber))
      /\ Less(TimesPow1024(DigitsOf(CoreNumber), CorePow), TwoTo64) =>
      /\ ~result.err
      /\ result.val = TimesPow1024(DigitsOf(CoreNumber), CorePow)

\* the digits of a mantissa, as a number, and how many follow its point
MantissaDigits(t) == DigitsOf(SelectSeq(t, IsDigit))

Decimals(t) ==
    IF \E i \in DOMAIN t : t[i] = "."
    THEN Len(t) - (CHOOSE i \in DOMAIN t : t[i] = ".")
    ELSE 0

\* 2 * |x - y| <= t
Within(x, y, t) ==
    /\ ~Less(Plus(Double(x), t), Double(y))
    /\ ~Less(Plus(Double(y), t), Double(x))

\* C12: for a numeric part with a decimal point, ParseSize returns the
\* product of the number and the multiplier rounded to the nearest integer:
\* the value returned is within one half of the product.
C12_RoundsToNearest ==
    result # NoResult /\ IsMantissa(CoreNumber) =>
      /\ ~result.err
      /\ LET d == Decimals(CoreNumber)
             scale == <<1>> \o [i \in 1 .. d |-> 0]
         IN  Within(StripZeros(result.val \o [i \in 1 .. d |-> 0]),
                    TimesPow1024(MantissaDigits(CoreNumber), CorePow),
                    scale)

\* C13: a numeric part that begins with a sign makes ParseSize fail.
C13_SignedFails ==
    result # NoResult /\ CoreNumber # <<>> /\ CoreNumber[1] \in {"+", "-"} =>
      result.err

----------------------------------------------------------------------------
(* Properties of HumanSize *)

\* C14: ParseSize succeeds on what HumanSize returned, gives the byte
\* count back when it is below 1024, and HumanSize of the value parsed is
\* the same text again.
C14_RoundTrip ==
    /\ result # NoResult =>
          /\ ~result.err
          /\ Less(bytes, NatDigits(KB)) => result.val = bytes
    /\ again # <<>> => again = human

\* C14 for the byte counts below 1024: ParseSize returns them exactly and
\* the text comes back.
C14_RoundTripOfBytes ==
    Less(bytes, NatDigits(KB)) =>
      /\ result # NoResult => ~result.err /\ result.val = bytes
      /\ again # <<>> => again = human

\* the unit of a byte count: the largest of 1024, 1024^2, 1024^3, 1024^4
\* that is at most b, as the number of factors; 0 (bytes) below 1024
UnitOf(b) == Max({0} \cup {k \in 1 .. 4 : ~Less(b, Threshold(k))})

UnitNames == << <<"B">>, <<"K", "B">>, <<"M", "B">>, <<"G", "B">>, <<"T", "B">> >>

\* t is digits, at least one, a point and exactly n digits
IsFixed(t, n) ==
    /\ Len(t) >= n + 2
    /\ t[Len(t) - n] = "."
    /\ \A i \in DOMAIN t \ {Len(t) - n} : IsDigit(t[i])

\* C15: HumanSize names the largest unit whose threshold is at most the
\* byte count (a count equal to a threshold has the higher unit, a count
\* below 1024 is in bytes); bytes are printed as the integer itself, KB, MB
\* and GB with exactly one decimal digit, TB with exactly two.
C15_UnitAndDecimals ==
    human # <<>> =>
      LET pow == UnitOf(bytes)
          name == <<SP>> \o UnitNames[pow + 1]
          number == SubSeq(human, 1, Len(human) - Len(name))
      IN  /\ HasSuffix(human, name)
          /\ pow = 0 => number = DigitChars(bytes)
          /\ pow \in 1 .. 3 => IsFixed(number, 1)
          /\ pow = 4 => IsFixed(number, 2)

\* HumanSize(1024) has returned "1.0 KB"
C15_Witness ==
    /\ bytes = NatDigits(KB)
    /\ human = <<"1", ".", "0", SP, "K", "B">>

----------------------------------------------------------------------------
(* Properties of HumanDuration *)

\* the whole seconds of a duration that is not negative, and its whole
\* milliseconds
SecondsOf(d) == ToInt(DropDigits(d.ns, 9))

MillisOf(d) == DropDigits(d.ns, 6)

\* the text of a duration with s whole seconds and ms whole milliseconds:
\* <ms>ms for s = 0, <s>.<t>s with t the whole tenths below a minute,
\* <minutes>m <seconds>s below an hour, <hours>h <minutes>m from there on
TextOf(d) ==
    LET s == SecondsOf(d)
        t == ToInt(LastDigits(MillisOf(d), 3)) \div 100
    IN  IF s = 0 THEN DigitChars(MillisOf(d)) \o <<"m", "s">>
        ELSE IF s < 60 THEN Itoa(s) \o <<".">> \o Itoa(t) \o <<"s">>
        ELSE IF s < 3600 THEN Itoa(s \div 60) \o <<"m", SP>> \o Itoa(s % 60) \o <<"s">>
        ELSE Itoa(s \div 3600) \o <<"h", SP>> \o Itoa((s % 3600) \div 60) \o <<"m">>

\* C16: for every duration that is not negative, HumanDuration returns the
\* text of its whole seconds and milliseconds.
C16_Bands == durText # <<>> /\ ~dur.neg => durText = TextOf(dur)

\* C16 for the durations below 2^24 seconds
C16_BandsOfShortRuns ==
    durText # <<>> /\ ~dur.neg /\ SecondsOf(dur) < 2^24 => durText = TextOf(dur)

----------------------------------------------------------------------------
(* Properties of TruncatePath *)

\* the last k elements of p
LastOf(p, k) == [i \in 1 .. k |-> p[Len(p) - k + i]]

IsSuffix(t, p) == Len(t) <= Len(p) /\ t = LastOf(p, Len(t))

C18_Fits == truncated.done /\ Len(path) > maxLen => Len(truncated.text) <= maxLen

\* C18 for the limits from 3 on
C18_FitsFromThree ==
    truncated.done /\ Len(path) > maxLen /\ maxLen >= 3 => Len(truncated.text) <= maxLen

\* the characters of a path: every byte that is not a continuation byte
\* starts one
Characters(p) == Cardinality({i \in DOMAIN p : ~IsContinuation(p[i])})

\* C19: a path of at most maxLen characters is returned unchanged, and a
\* truncated result is "..." followed by whole characters of the path: what
\* follows the dots does not start with a continuation byte.
C19_WholeCharacters ==
    truncated.done =>
        /\ Characters(path) <= maxLen => truncated.text = path
        /\ truncated.text # path /\ Len(truncated.text) > 3 =>
               ~IsContinuation(truncated.text[4])

\* C19 for the paths of one-byte characters
C19_WholeCharactersOfASCII ==
    truncated.done /\ Characters(path) = Len(path) =>
        /\ Characters(path) <= maxLen => truncated.text = path
        /\ truncated.text # path /\ Len(truncated.text) > 3 =>
               ~IsContinuation(truncated.text[4])

----------------------------------------------------------------------------
(* Properties of the streams *)

\* a step is the final write of an Error call on a handle: the second
\* statement of SpinnerHandle.Error or BarHandle.Error
HandleErrorReturns == caller.op \in {"Error", "BarError"} /\ caller' = Idle

\* C20: the final line of SpinnerHandle.Error, of BarHandle.Error and of the
\* Error message function goes to stderr, and every other write (of Success,
\* Warn, Clear, Info, Dim, and of the animation) goes to stdout.
C20_Streams ==
    [][\A i \in Len(out) + 1 .. Len(out') :
          LET w == out'[i]
              byError == \/ HandleErrorReturns
                         \/ w.by = MId /\ w.kind = "Error"
          IN  w.stream = IF byError THEN "stderr" ELSE "stdout"]_vars

\* a spinner has finished with Error and the Error message function was
\* called: both lines are on stderr, and the erasing of the spinner's line
\* is on stdout
C20_Witness ==
    /\ \E i \in DOMAIN out :
          out[i].by = SId(1) /\ out[i].kind = "final" /\ out[i].stream = "stderr"
    /\ \E i \in DOMAIN out :
          out[i].by = MId /\ out[i].kind = "Error" /\ out[i].stream = "stderr"
    /\ \E i \in DOMAIN out : out[i].stream = "stdout"

----------------------------------------------------------------------------
(* Properties of the colour flag *)

\* a text carries styling escape codes
HasStyle(text) == \E i \in DOMAIN text : text[i] = "ESC[0m"

\* the lines with a styled piece: the final line of a finishing call (Clear
\* prints none) and the line of a message function
IsStyledLine(w) == w.kind = "final" \/ w.by = MId

\* C21: every line of a message function and of a spinner's or bar's
\* finishing call carries styling codes exactly when the colour flag is on
\* at the moment it is written.
C21_FlagReadAtWrite ==
    [][\A i \in Len(out) + 1 .. Len(out') :
          IsStyledLine(out'[i]) => (HasStyle(out'[i].text) <=> ~noColor)]_vars

\* C21 for the finishing calls of spinners and bars and for Dim
C21_FlagReadAtWriteByHandles ==
    [][\A i \in Len(out) + 1 .. Len(out') :
          out'[i].kind = "final" \/ (out'[i].by = MId /\ out'[i].kind = "Dim")
              => (HasStyle(out'[i].text) <=> ~noColor)]_vars

----------------------------------------------------------------------------
(* Properties of the colour initialisation *)

----------------------------------------------------------------------------
(* Properties of the bar *)

\* min(current, total) / total as a percentage; complete when total is 0
ClampedPercent(b) ==
    IF b.max = 0 THEN 100 ELSE (100 * Min({b.currentNum, b.max})) \div b.max

\* C23: once a bar has been updated with Add or Set, the percentage it shows
\* is min(current, total)/total, between 0% and 100%; with total 0 it shows
\* the bar complete.
C23_Clamped ==
    \A h \in DOMAIN bars :
        bars[h].updates > 0 =>
            /\ bars[h].drawn = <<ClampedPercent(bars[h])>>
            /\ bars[h].drawn[1] \in 0 .. 100

\* C23 for the bars with a total above 0 whose amounts keep current from 0
\* to the total
C23_ClampedWithinTotal ==
    \A h \in DOMAIN bars :
        /\ bars[h].updates > 0
        /\ bars[h].max > 0
        /\ bars[h].currentBytes = bars[h].currentNum
        /\ bars[h].currentNum \in 0 .. bars[h].max
        => /\ bars[h].drawn # <<>>
           /\ bars[h].drawn[1] = ClampedPercent(bars[h])
           /\ bars[h].drawn[1] \in 0 .. 100

\* the last write of a handle before position i, 0 if there is none
LastBefore(by, i) ==
    LET js == {j \in 1 .. i - 1 : out[j].by = by}
    IN  IF js = {} THEN 0 ELSE CHOOSE j \in js : \A k \in js : k <= j

\* C24: what a bar wrote last before the final line of Success or Error is
\* the erasing of its line, not a drawing of the bar.
C24_EraseThenFinal ==
    \A i \in DOMAIN out :
        out[i].kind = "final" /\ out[i].by[1] = "bar" =>
            /\ LastBefore(out[i].by, i) # 0
            /\ out[LastBefore(out[i].by, i)].kind \in {"barclear", "clear"}

\* C24 for Clear: what BarHandle.Clear writes is the erasing of the line
C24_ClearErases ==
    [][\A h \in DOMAIN bars :
          bars'[h].done > bars[h].done /\ caller = Idle =>
              /\ Len(out') = Len(out) + 1
              /\ out'[Len(out')] = Write("stdout", BId(h), "clear", <<CR, "blanks", CR>>)]_vars

----------------------------------------------------------------------------
(* Properties of the layout functions *)

\* C25: Header, Section, KV, Step, Blank, Divider and Indent return
\* normally for every argument: no call panics.
C25_Total == ~layout.panicked

\* C25 for the arguments that are not negative
C25_TotalFromZero == layout.n >= 0 => ~layout.panicked

----------------------------------------------------------------------------
(* Properties of the spinner's mutex *)

\* the ticking goroutine is inside its critical section, where it reads the
\* Suffix
TickHoldsMutex(h) == spinners[h].tpc = "locked"

\* the caller is at the statement of UpdateMessage that writes the Suffix;
\* UpdateMessage holds no mutex
WritesSuffix(h) == caller.op = "UpdateMessage" /\ caller.h = h

\* C26: UpdateMessage never writes the message while the ticking goroutine
\* is in the critical section that reads it.
C26_NoRace ==
    \A h \in DOMAIN spinners : ~(TickHoldsMutex(h) /\ WritesSuffix(h))

----------------------------------------------------------------------------
(* Properties of the stages' spinners *)

\* the spinners that are Running: started and not stopped
Running == {h \in DOMAIN spinners : spinners[h].active}

\* C27: at most one stage spinner is Running at any time.
C27_OneRunning == Cardinality(Running) <= 1

\* C27 for Skip: Skip does not print while a stage spinner is Running
C27_SkipWhenNoneRunning ==
    [][Len(out') > Len(out) /\ out'[Len(out')].kind = "skip" => Running = {}]_vars

\* C27 when every stage is finished before the next begins: a step that
\* starts a spinner with none Running leaves one Running
C27_OneRunningAfterFinish ==
    [][Len(spinners') > Len(spinners) /\ Running = {} =>
          Cardinality({h \in DOMAIN spinners' : spinners'[h].active}) = 1]_vars

----------------------------------------------------------------------------
(* Properties of ParseSize on large numbers *)

\* the number ParseSize reads in its input, and the unit's power of 1024
NumberOf(in) ==
    LET split == SplitUnit(TrimSpace(ToUpper(Flatten(in))), 1)
    IN  [num |-> ParseFloat(TrimSpace(split.numStr)), pow |-> split.pow]

\* the integer part of number * multiplier, for a finite number >= 0
IntegerPart(n) ==
    IF n.num.zero THEN <<0>>
    ELSE LET p == TimesPow1024(n.num.val.mant, n.pow)
         IN  IF n.num.val.exp >= 0 THEN DoubleN(p, n.num.val.exp)
             ELSE HalveN(p, -n.num.val.exp)

\* the product is a number that fits a uint64
Fits(n) == n.num.special = "none" /\ Less(IntegerPart(n), TwoTo64)

\* C28: when ParseSize returns without error, the number is finite, its
\* product with the multiplier fits a uint64, and the value returned is the
\* integer part of the product: otherwise ParseSize returns an error.
C28_ErrorWhenOutOfRange ==
    result # NoResult /\ ~result.err =>
        /\ Fits(NumberOf(input))
        /\ result.val = IntegerPart(NumberOf(input))

\* C28 for the products that fit: the integer part is returned
C28_IntegerPartWhenInRange ==
    result # NoResult /\ ~result.err /\ Fits(NumberOf(input)) =>
        result.val = IntegerPart(NumberOf(input))

----------------------------------------------------------------------------
(* Properties of HumanDuration on negative durations *)

\* the duration -d
Negated(d) == [d EXCEPT !.neg = ~d.neg]

\* C29: for every d > 0, HumanDuration(-d) is "-" followed by
\* HumanDuration(d).
C29_Symmetric ==
    durText # <<>> /\ dur.neg => durText = <<"-">> \o HumanDuration(Negated(dur))

\* C29 for the durations of less than a second and at least a millisecond
C29_SymmetricBelowASecond ==
    durText # <<>> /\ dur.neg /\ SecondsOf(dur) = 0 /\ MillisOf(dur) # <<0>> =>
        durText = <<"-">> \o HumanDuration(Negated(dur))

----------------------------------------------------------------------------
(* Properties of StageProgress.Total *)

\* C30: Total() is constant: no step (Next, Skip, a tick of a stage's
\* spinner, a finishing call) changes it, so it is always the value passed
\* to NewStageProgress; Current() and IsComplete() read, and change nothing.
C30_TotalConstant == [][Total' = Total]_vars

\* a stage was started and finished and another skipped, and Total() is
\* still the value the tracker was made with
C30_Witness ==
    /\ stageCalls = 2
    /\ \E h \in DOMAIN spinners : spinners[h].done > 0
    /\ \E i \in DOMAIN out : out[i].kind = "skip"
    /\ Current = 2
    /\ IsComplete
    /\ sp = [NewStageProgress(MaxTotal) EXCEPT !.current = 2]

====
